---- MODULE Spec2Model ----
(***************************************************************************)
(* Model of run_with_gradio.py: a main thread that starts the ComfyUI      *)
(* server in a daemon thread, polls it with _wait_for_server, resolves the *)
(* URL to embed and launches the Gradio shell.                             *)
(*                                                                         *)
(* Time is counted in whole seconds.  Only the two blocking calls of the   *)
(* main thread (urlopen and time.sleep) let time pass; every other         *)
(* statement of the main thread is instantaneous.  The steps of the server *)
(* thread are untimed and interleave freely with the main thread.          *)
(* A URL is a record (scheme, host, port, path); the empty URL stands for  *)
(* a falsy value returned by eval_js.  Port 8188 is served by the server   *)
(* thread alone.                                                           *)
(***************************************************************************)
EXTENDS Integers, Sequences, FiniteSets, TLC

\* ---------------------------------------------------------------- bounds
\* Largest timeout argument of _wait_for_server that is explored.
MaxTimeout == 7
\* Largest poll interval argument of _wait_for_server that is explored.
MaxInterval == 2
\* Largest timeout explored where _wait_for_server is checked on its own.
MaxProbeTimeout == 3
\* Largest number of arguments after sys.argv[0] that is explored.
MaxArgs == 2

\* ------------------------------------------------------ program constants
COMFYUI_PORT == 8188
\* timeout=2 of urllib.request.urlopen
AttemptTimeout == 2
\* server_port of app.launch
GradioPort == 7860

COMFYUI_URL_LOCAL ==
  [scheme |-> "http", host |-> "127.0.0.1", port |-> COMFYUI_PORT, path |-> ""]

LocalhostUrl ==
  [scheme |-> "http", host |-> "localhost", port |-> COMFYUI_PORT, path |-> ""]

\* The candidates of one polling round, in the order they are tried.
urls_to_try == <<COMFYUI_URL_LOCAL, LocalhostUrl>>

\* A falsy return value of eval_js (None or the empty string).
EmptyUrl == [scheme |-> "", host |-> "", port |-> 0, path |-> ""]

\* Values the hosted proxy call can return when it does return a URL.
ProxyUrls ==
  { [scheme |-> "https", host |-> "proxy.example", port |-> 443, path |-> "/abc123/"],
    [scheme |-> "https", host |-> "colab.example", port |-> 443, path |-> "/8188/"] }

\* ------------------------------------------------------------ exceptions
\* An exception is a record of its class name and its str().
NoExc == [type |-> "", msg |-> ""]

\* Exceptions the server start-up can raise.  SystemExit is what argparse
\* raises on unrecognized arguments; it does not derive from Exception.
ServerExcs ==
  { [type |-> "ImportError", msg |-> "No module named torch"],
    [type |-> "SystemExit", msg |-> "2"] }

\* Errors a hosted-environment import or call can raise.
HostedExcs ==
  { [type |-> "ImportError", msg |-> "No module named google"],
    [type |-> "MessageError", msg |-> "proxyPort failed"] }

\* Classes that derive from BaseException without deriving from Exception.
BaseOnlyClasses == {"SystemExit", "KeyboardInterrupt", "GeneratorExit"}

\* isinstance(e, cls) for the two handler classes the program uses.
IsInstance(e, cls) ==
  CASE cls = "BaseException" -> TRUE
    [] cls = "Exception" -> e.type \notin BaseOnlyClasses
    [] OTHER -> e.type = cls

\* HTTP statuses the server can answer the probe with.
Statuses == {200, 404, 500}

\* Ways a connection attempt fails without any HTTP response.
FailKinds == {"refused", "timeout", "dns"}

VARIABLES
  sys_argv,            \* sys.argv
  argv0,               \* sys.argv as the process was started with
  ipython,             \* "ipython" in sys.modules at line 36
  now,                 \* time.monotonic(), seconds
  timeout,             \* argument of _wait_for_server
  interval,            \* argument of _wait_for_server
  resolves,            \* indexes of urls_to_try that reach the server here
  mainpc,              \* position of the main thread
  deadline,            \* local of _wait_for_server
  urlIdx,              \* position of the for loop over urls_to_try
  attempt,             \* outcome of the connection attempt in flight
  busyUntil,           \* time at which the blocking call in flight returns
  waitResult,          \* "none", "ready" (True) or "notready" (False)
  waitEnd,             \* time at which _wait_for_server returned
  srvpc,               \* position of the server thread
  srvExc,              \* exception caught at line 66
  server_start_error,  \* the list _server_start_error
  status,              \* HTTP status the server answers with while serving
  listenTime,          \* time at which the server started accepting, or -1
  accepted,            \* the server has accepted a connection of this call
  lastStatus,          \* status of the last answered attempt, 0 if none
  slotRead,            \* what main saw in _server_start_error: "none", "empty", "error"
  msg,                 \* local of main: the text of the fatal error
  mainExc,             \* exception that ended main, with its message
  in_colab,            \* local of main
  exposeResult,        \* "none", "ok" or "failed"
  proxyResult,         \* "none", "url", "empty" or "failed"
  comfy_url,           \* local of main
  proxyValue,          \* what the proxy call returned, EmptyUrl if nothing
  app,                 \* the constructed UI shell
  printed,             \* the URL printed at line 136, EmptyUrl if none
  gradio_share,        \* os.environ entry GRADIO_SHARE as read at line 160
  launch               \* keyword arguments app.launch was called with

vars ==
  << sys_argv, argv0, ipython, now, timeout, interval, resolves, mainpc, deadline, urlIdx, attempt,
     busyUntil, waitResult, waitEnd, srvpc, srvExc, server_start_error,
     status, listenTime, accepted, lastStatus, slotRead, msg, mainExc,
     in_colab, exposeResult, proxyResult, proxyValue, comfy_url, app,
     printed, gradio_share, launch >>

proberVars ==
  << deadline, urlIdx, attempt, busyUntil, waitResult, waitEnd, accepted,
     lastStatus >>

serverVars == << srvpc, srvExc, server_start_error, status, listenTime >>

uiVars ==
  << in_colab, exposeResult, proxyResult, proxyValue, comfy_url, app, printed,
     gradio_share, launch >>

argVars == << timeout, interval, resolves, sys_argv, argv0, ipython >>

NoAttempt == [kind |-> "none", code |-> 0]
NoApp == [built |-> FALSE, src |-> EmptyUrl, note |-> FALSE]
NoLaunch ==
  [called |-> FALSE, server_name |-> "", server_port |-> 0, share |-> FALSE,
   inbrowser |-> FALSE]

\* An entry of os.environ: absent, or present with a string value.  A string
\* is the sequence of its characters.
Unset == [set |-> FALSE, val |-> << >>]
EnvValue(str) == [set |-> TRUE, val |-> str]

\* ------------------------------------------------- argument preparation

\* Stands for os.path.dirname(os.path.abspath(__file__)).
COMFYUI_ROOT == "/content/ComfyUI"

\* x in seq
In(x, seq) == \E k \in 1..Len(seq) : seq[k] = x

\* Faulty variant of _argv_for_comfy: the whole of sys.argv is kept as base.
argv_for_comfy_keeps_all(argv) ==
  LET base0 == IF argv # << >> THEN argv ELSE << "python" >>
      base1 == IF ~In("--base-directory", base0)
                 THEN base0 \o << "--base-directory", COMFYUI_ROOT >>
                 ELSE base0
      base2 == IF ~In("--listen", base1)
                 THEN base1 \o << "--listen", "0.0.0.0" >>
                 ELSE base1
  IN  IF ~In("--disable-auto-launch", base2)
        THEN base2 \o << "--disable-auto-launch" >>
        ELSE base2

\* Lines 26-34: _argv_for_comfy()
argv_for_comfy(argv) ==
  LET base0 == IF argv # << >> THEN << argv[1] >> ELSE << "python" >>
      base1 == IF ~In("--base-directory", base0)
                 THEN base0 \o << "--base-directory", COMFYUI_ROOT >>
                 ELSE base0
      base2 == IF ~In("--listen", base1)
                 THEN base1 \o << "--listen", "0.0.0.0" >>
                 ELSE base1
  IN  IF ~In("--disable-auto-launch", base2)
        THEN base2 \o << "--disable-auto-launch" >>
        ELSE base2

\* Lines 36-42: the value of sys.argv after the module-level preparation.
PreparedArgv(argv, ipy) ==
  IF In("-f", argv) \/ ipy
    THEN argv_for_comfy(argv)
    ELSE LET a1 == IF ~In("--listen", argv)
                     THEN argv \o << "--listen", "0.0.0.0" >>
                     ELSE argv
         IN  IF ~In("--disable-auto-launch", a1)
               THEN a1 \o << "--disable-auto-launch" >>
               ELSE a1

\* sys.argv of the plain local start: python run_with_gradio.py
ScriptArgv == << "run_with_gradio.py" >>

\* State at the call of main() at line 166, after a plain local start.
Init ==
  /\ argv0 = ScriptArgv
  /\ ipython = FALSE
  /\ sys_argv = PreparedArgv(ScriptArgv, FALSE)
  /\ now = 0
  /\ timeout \in 0..MaxTimeout
  /\ interval \in 1..MaxInterval
  /\ resolves \in SUBSET (1..Len(urls_to_try))
  /\ mainpc = "start"
  /\ deadline = 0
  /\ urlIdx = 1
  /\ attempt = NoAttempt
  /\ busyUntil = 0
  /\ waitResult = "none"
  /\ waitEnd = -1
  /\ srvpc = "unstarted"
  /\ srvExc = NoExc
  /\ server_start_error = << >>
  /\ status = 0
  /\ listenTime = -1
  /\ accepted = FALSE
  /\ lastStatus = 0
  /\ slotRead = "none"
  /\ msg = << >>
  /\ mainExc = [type |-> "", msg |-> << >>]
  /\ in_colab = FALSE
  /\ exposeResult = "none"
  /\ proxyResult = "none"
  /\ proxyValue = EmptyUrl
  /\ comfy_url = EmptyUrl
  /\ app = NoApp
  /\ printed = EmptyUrl
  /\ gradio_share = Unset
  /\ launch = NoLaunch

\* ========================================================= server thread

\* The statements of the try block, in order.
StartupSteps == <<"chdir", "syspath", "import", "start_comfyui", "run">>

NextStep(s) ==
  LET i == CHOOSE k \in 1..Len(StartupSteps) : StartupSteps[k] = s
  IN  IF i < Len(StartupSteps) THEN StartupSteps[i + 1] ELSE "serving"

\* Faulty variant of line 66: except Exception as e
ServerHandlerClass_exception_only == "Exception"

\* Line 66: except BaseException as e
ServerHandlerClass == "BaseException"

\* Line 55: _server_start_error.clear()
run_comfyui_server_clear ==
  /\ srvpc = "clear"
  /\ server_start_error' = << >>
  /\ srvpc' = StartupSteps[1]
  /\ UNCHANGED << now, argVars, mainpc, proberVars, srvExc, status,
                  listenTime, slotRead, msg, mainExc, uiVars >>

\* Lines 58-65: one statement of the try block completes.  When
\* run_until_complete has brought the server up, the port accepts
\* connections and answers with a fixed status.
run_comfyui_server_step ==
  /\ srvpc \in {StartupSteps[k] : k \in 1..Len(StartupSteps)}
  /\ srvpc' = NextStep(srvpc)
  /\ IF srvpc' = "serving"
       THEN /\ listenTime' = now
            /\ status' \in Statuses
       ELSE UNCHANGED << listenTime, status >>
  /\ UNCHANGED << now, argVars, mainpc, proberVars, srvExc,
                  server_start_error, slotRead, msg, mainExc, uiVars >>

\* Lines 58-66: a statement of the try block raises, also while the server
\* is being driven by run_until_complete; control enters the handler.
run_comfyui_server_raise ==
  /\ srvpc \in {StartupSteps[k] : k \in 1..Len(StartupSteps)} \cup {"serving"}
  /\ \E e \in ServerExcs :
       /\ srvExc' = e
       /\ srvpc' = IF IsInstance(e, ServerHandlerClass) THEN "except" ELSE "raised"
  /\ UNCHANGED << now, argVars, mainpc, proberVars, server_start_error,
                  status, listenTime, slotRead, msg, mainExc, uiVars >>

\* Faulty variant of line 67: the exception is stored twice.
run_comfyui_server_append_twice ==
  /\ srvpc = "except"
  /\ server_start_error' = Append(Append(server_start_error, srvExc), srvExc)
  /\ srvpc' = "reraise"
  /\ UNCHANGED << now, argVars, mainpc, proberVars, srvExc, status,
                  listenTime, slotRead, msg, mainExc, uiVars >>

\* Line 67: _server_start_error.append(e)
run_comfyui_server_append ==
  /\ srvpc = "except"
  /\ server_start_error' = Append(server_start_error, srvExc)
  /\ srvpc' = "reraise"
  /\ UNCHANGED << now, argVars, mainpc, proberVars, srvExc, status,
                  listenTime, slotRead, msg, mainExc, uiVars >>

\* Line 68: raise; the thread ends by the exception.
run_comfyui_server_reraise ==
  /\ srvpc = "reraise"
  /\ srvpc' = "raised"
  /\ UNCHANGED << now, argVars, mainpc, proberVars, srvExc,
                  server_start_error, status, listenTime, slotRead, msg, mainExc,
                  uiVars >>

\* Line 65 returns: the embedded server terminated on its own.
run_comfyui_server_return ==
  /\ srvpc = "serving"
  /\ srvpc' = "finished"
  /\ UNCHANGED << now, argVars, mainpc, proberVars, srvExc,
                  server_start_error, status, listenTime, slotRead, msg, mainExc,
                  uiVars >>

\* The server accepts connections on its port.
Listening == srvpc = "serving"


\* =================================================== main: start and probe

mainVars == << slotRead, msg, mainExc >>

\* Lines 112-114: the daemon thread is created and started, and main calls
\* _wait_for_server.
main_start_thread ==
  /\ mainpc = "start"
  /\ srvpc' = "clear"
  /\ mainpc' = "wait_init"
  /\ UNCHANGED << now, argVars, proberVars, srvExc, server_start_error,
                  status, listenTime, mainVars, uiVars >>

\* Line 77: deadline = time.monotonic() + timeout
wait_for_server_init ==
  /\ mainpc = "wait_init"
  /\ deadline' = now + timeout
  /\ mainpc' = "loop"
  /\ UNCHANGED << now, argVars, urlIdx, attempt, busyUntil, waitResult,
                  waitEnd, accepted, lastStatus, serverVars, mainVars,
                  uiVars >>

\* Faulty variant of the loop test: the loop also ends as soon as the
\* server thread has stored an exception.
LoopContinues_stops_on_error(t, d) == t < d /\ Len(server_start_error) = 0

\* Faulty variant of the loop test: a round still starts at the deadline.
LoopContinues_inclusive(t, d) == t <= d

\* Line 78: the condition of the while loop.
LoopContinues(t, d) == t < d

\* Lines 78-79 and 87: the loop test; a new round starts with the first
\* candidate, or the call returns False.
wait_for_server_loop ==
  /\ mainpc = "loop"
  /\ IF LoopContinues(now, deadline)
       THEN /\ urlIdx' = 1
            /\ mainpc' = "try"
            /\ UNCHANGED << waitResult, waitEnd >>
       ELSE /\ waitResult' = "notready"
            /\ waitEnd' = now
            /\ mainpc' = "check_ready"
            /\ UNCHANGED urlIdx
  /\ UNCHANGED << now, argVars, deadline, attempt, busyUntil, accepted,
                  lastStatus, serverVars, mainVars, uiVars >>

\* The server answers a connection to candidate i made now.
Answers(i) == Listening /\ i \in resolves

\* Lines 81-82: urlopen(req, timeout=2) is entered.  What the attempt will
\* end with is fixed by the state of the port when the connection is made;
\* the call returns or raises within its timeout.
wait_for_server_urlopen ==
  /\ mainpc = "try"
  /\ \E d \in 0..AttemptTimeout :
       /\ busyUntil' = now + d
       /\ IF Answers(urlIdx)
            THEN /\ attempt' = [kind |-> "response", code |-> status]
                 /\ accepted' = TRUE
            ELSE /\ \E k \in FailKinds :
                      /\ k = "timeout" => d = AttemptTimeout
                      /\ k = "dns" => urls_to_try[urlIdx].host = "localhost"
                      /\ attempt' = [kind |-> k, code |-> 0]
                 /\ UNCHANGED accepted
  /\ mainpc' = "urlopen"
  /\ UNCHANGED << now, argVars, deadline, urlIdx, waitResult, waitEnd,
                  lastStatus, serverVars, mainVars, uiVars >>

\* urllib's HTTPErrorProcessor: a response whose status is not 2xx makes
\* urlopen raise HTTPError instead of returning the response.
UrlopenRaises(code) == ~(200 <= code /\ code < 300)

\* The exception urlopen raises for an attempt that does not return.
AttemptExc(a) ==
  IF a.kind = "response"
    THEN [type |-> "HTTPError", msg |-> "HTTP Error"]
    ELSE [type |-> "URLError", msg |-> a.kind]

\* Faulty variant of the attempt: the call reports success whatever the
\* attempt ended with.
AttemptSucceeds_always(a) == TRUE

\* Lines 82-83: urlopen returned, so return True is reached.
AttemptSucceeds(a) == a.kind = "response" /\ ~UrlopenRaises(a.code)

\* Faulty variant of line 84: except urllib.error.HTTPError
ProbeHandlerClass_http_only == "HTTPError"

\* Line 84: except Exception
ProbeHandlerClass == "Exception"

\* Faulty variant of the sleep: time.sleep returns at once.
SleepUntil_zero(t, i) == t

\* Faulty variant of the sleep: the prober sleeps two intervals.
SleepUntil_double(t, i) == t + 2 * i

\* Line 86: time.sleep(interval) entered at t returns at t + interval.
SleepUntil(t, i) == t + i

\* Lines 82-86: urlopen returns (return True) or raises; a caught exception
\* moves on to the next candidate, and after the last one to time.sleep.
wait_for_server_attempt_done ==
  /\ mainpc = "urlopen"
  /\ now = busyUntil
  /\ lastStatus' = IF attempt.kind = "response" THEN attempt.code ELSE lastStatus
  /\ IF AttemptSucceeds(attempt)
       THEN /\ waitResult' = "ready"
            /\ waitEnd' = now
            /\ mainpc' = "check_ready"
            /\ UNCHANGED << urlIdx, busyUntil, mainExc >>
       ELSE IF ~IsInstance(AttemptExc(attempt), ProbeHandlerClass)
         THEN /\ mainExc' = [type |-> AttemptExc(attempt).type, msg |-> << >>]
              /\ mainpc' = "raised"
              /\ UNCHANGED << urlIdx, busyUntil, waitResult, waitEnd >>
         ELSE IF urlIdx < Len(urls_to_try)
           THEN /\ urlIdx' = urlIdx + 1
                /\ mainpc' = "try"
                /\ UNCHANGED << busyUntil, waitResult, waitEnd, mainExc >>
           ELSE /\ busyUntil' = SleepUntil(now, interval)
                /\ mainpc' = "sleep"
                /\ UNCHANGED << urlIdx, waitResult, waitEnd, mainExc >>
  /\ attempt' = NoAttempt
  /\ UNCHANGED << now, argVars, deadline, accepted, serverVars, slotRead,
                  msg, uiVars >>

\* Line 86: time.sleep(interval) returns.
wait_for_server_sleep_done ==
  /\ mainpc = "sleep"
  /\ now = busyUntil
  /\ mainpc' = "loop"
  /\ UNCHANGED << now, argVars, proberVars, serverVars, mainVars, uiVars >>

\* One second passes while the main thread is blocked in urlopen or sleep.
Tick ==
  /\ mainpc \in {"urlopen", "sleep"}
  /\ now < busyUntil
  /\ now' = now + 1
  /\ UNCHANGED << argVars, mainpc, proberVars, serverVars, mainVars, uiVars >>


\* ================================================ main: after the prober

GenericMsg ==
  << "ComfyUI server did not become ready in time. ",
     "Check the console for errors." >>

\* Faulty variant of the message: the text of the exception is left out.
ErrorMessage_type_only(slot) ==
  IF Len(slot) > 0
    THEN GenericMsg \o << "\n\nServer thread failed with: ", slot[1].type >>
    ELSE GenericMsg

\* Faulty variant of the message: the captured exception is left out.
ErrorMessage_generic(slot) == GenericMsg

\* Lines 117-123: the text of the fatal error, given the content of
\* _server_start_error at the moment main looks at it.
ErrorMessage(slot) ==
  IF Len(slot) > 0
    THEN GenericMsg \o << "\n\nServer thread failed with: ",
                          slot[1].type, ": ", slot[1].msg >>
    ELSE GenericMsg

\* Faulty variant of line 116: the result of the prober is ignored.
main_check_ready_ignored ==
  /\ mainpc = "check_ready"
  /\ mainpc' = "detect"
  /\ UNCHANGED << now, argVars, proberVars, serverVars, mainVars, uiVars >>

\* Line 116: if not _wait_for_server()
main_check_ready ==
  /\ mainpc = "check_ready"
  /\ mainpc' = IF waitResult = "ready" THEN "detect" ELSE "read_slot"
  /\ UNCHANGED << now, argVars, proberVars, serverVars, mainVars, uiVars >>

\* Lines 117-123: the message is built from the slot.
main_read_slot ==
  /\ mainpc = "read_slot"
  /\ slotRead' = IF Len(server_start_error) > 0 THEN "error" ELSE "empty"
  /\ msg' = ErrorMessage(server_start_error)
  /\ mainpc' = "raise"
  /\ UNCHANGED << now, argVars, proberVars, serverVars, mainExc, uiVars >>

\* Faulty variant of line 124: the message is built again from the slot as
\* it is when the error is raised.
main_raise_rereads ==
  /\ mainpc = "raise"
  /\ mainExc' = [type |-> "RuntimeError",
                 msg |-> ErrorMessage(server_start_error)]
  /\ mainpc' = "raised"
  /\ UNCHANGED << now, argVars, proberVars, serverVars, slotRead, msg,
                  uiVars >>

\* Line 124: raise RuntimeError(msg)
main_raise ==
  /\ mainpc = "raise"
  /\ mainExc' = [type |-> "RuntimeError", msg |-> msg]
  /\ mainpc' = "raised"
  /\ UNCHANGED << now, argVars, proberVars, serverVars, slotRead, msg,
                  uiVars >>

\* Faulty variant of lines 127-129: the port is exposed when not hosted.
main_detect_inverted ==
  /\ mainpc = "detect"
  /\ in_colab' \in BOOLEAN
  /\ mainpc' = IF in_colab' THEN "resolve" ELSE "expose"
  /\ UNCHANGED << now, argVars, proberVars, serverVars, mainVars,
                  exposeResult, proxyResult, proxyValue, comfy_url, app,
                  printed, gradio_share, launch >>

\* Lines 127-129: in_colab = "google.colab" in sys.modules
main_detect ==
  /\ mainpc = "detect"
  /\ in_colab' \in BOOLEAN
  /\ mainpc' = IF in_colab' THEN "expose" ELSE "resolve"
  /\ UNCHANGED << now, argVars, proberVars, serverVars, mainVars,
                  exposeResult, proxyResult, proxyValue, comfy_url, app,
                  printed, gradio_share, launch >>

\* What a call into the hosted environment ends with: it returns a value
\* or the import or the call raises.
HostedOutcomes ==
  { [kind |-> "raise", exc |-> e, url |-> EmptyUrl] : e \in HostedExcs }
    \cup { [kind |-> "return", exc |-> NoExc, url |-> u] :
             u \in ProxyUrls \cup {EmptyUrl} }

\* Faulty variant of the handlers: only a failed import is caught.
HostedHandlerClass_import_only == "ImportError"

\* Lines 97 and 107: except Exception
HostedHandlerClass == "Exception"

\* Lines 104-108: the exception _expose_colab_port lets through, if any.
ExposeRaises(o) ==
  o.kind = "raise" /\ ~IsInstance(o.exc, HostedHandlerClass)

\* Lines 102-108 (called at line 129): _expose_colab_port()
expose_colab_port ==
  /\ mainpc = "expose"
  /\ \E o \in HostedOutcomes :
       /\ o.kind = "return" => o.url = EmptyUrl
       /\ IF ExposeRaises(o)
            THEN /\ mainExc' = [type |-> o.exc.type, msg |-> << o.exc.msg >>]
                 /\ mainpc' = "raised"
            ELSE /\ mainpc' = "resolve"
                 /\ UNCHANGED mainExc
       /\ exposeResult' = IF o.kind = "return" THEN "ok" ELSE "failed"
  /\ UNCHANGED << now, argVars, proberVars, serverVars, slotRead, msg,
                  in_colab, proxyResult, proxyValue, comfy_url, app, printed,
                  gradio_share, launch >>

\* Lines 92-99: the exception _get_comfyui_url lets through, if any.
ResolveRaises(o) ==
  o.kind = "raise" /\ ~IsInstance(o.exc, HostedHandlerClass)

\* Faulty variant of the resolver: the proxied URL is dropped.
ResolvedUrl_local(o) == COMFYUI_URL_LOCAL

\* Lines 92-99: the value _get_comfyui_url returns when it returns.
ResolvedUrl(o) ==
  IF o.kind = "return" /\ o.url # EmptyUrl THEN o.url ELSE COMFYUI_URL_LOCAL

\* Lines 90-99 (called at line 130): comfy_url = _get_comfyui_url()
get_comfyui_url ==
  /\ mainpc = "resolve"
  /\ \E o \in HostedOutcomes :
       /\ IF ResolveRaises(o)
            THEN /\ mainExc' = [type |-> o.exc.type, msg |-> << o.exc.msg >>]
                 /\ mainpc' = "raised"
                 /\ UNCHANGED comfy_url
            ELSE /\ comfy_url' = ResolvedUrl(o)
                 /\ mainpc' = "import_gradio"
                 /\ UNCHANGED mainExc
       /\ proxyResult' = IF o.kind = "raise" THEN "failed"
                         ELSE IF o.url = EmptyUrl THEN "empty" ELSE "url"
       /\ proxyValue' = o.url
  /\ UNCHANGED << now, argVars, proberVars, serverVars, slotRead, msg,
                  in_colab, exposeResult, app, printed, gradio_share,
                  launch >>

\* Lines 132-137: import gradio; on ImportError print the URL and return.
main_import_gradio ==
  /\ mainpc = "import_gradio"
  /\ \E available \in BOOLEAN :
       IF available
         THEN /\ mainpc' = "construct"
              /\ UNCHANGED printed
         ELSE /\ printed' = comfy_url
              /\ mainpc' = "returned"
  /\ UNCHANGED << now, argVars, proberVars, serverVars, mainVars, in_colab,
                  exposeResult, proxyResult, proxyValue, comfy_url, app,
                  gradio_share, launch >>

\* Lines 139-154: the Blocks document with the note and the frame.
Blocks(url, hosted) == [built |-> TRUE, src |-> url, note |-> hosted]

main_construct ==
  /\ mainpc = "construct"
  /\ app' = Blocks(comfy_url, in_colab)
  /\ mainpc' = "launch"
  /\ UNCHANGED << now, argVars, proberVars, serverVars, mainVars, in_colab,
                  exposeResult, proxyResult, comfy_url, launch, proxyValue,
                  printed, gradio_share >>

\* The letters of str.lower(), upper case and lower case in step.
UpperLetters ==
  << "A", "B", "C", "D", "E", "F", "G", "H", "I", "J", "K", "L", "M",
     "N", "O", "P", "Q", "R", "S", "T", "U", "V", "W", "X", "Y", "Z" >>

LowerLetters ==
  << "a", "b", "c", "d", "e", "f", "g", "h", "i", "j", "k", "l", "m",
     "n", "o", "p", "q", "r", "s", "t", "u", "v", "w", "x", "y", "z" >>

LowerChar(c) ==
  IF \E k \in 1..Len(UpperLetters) : UpperLetters[k] = c
    THEN LowerLetters[CHOOSE k \in 1..Len(UpperLetters) : UpperLetters[k] = c]
    ELSE c

\* str.lower()
Lower(str) == [k \in 1..Len(str) |-> LowerChar(str[k])]

\* os.environ.get(name, "")
EnvGet(entry) == IF entry.set THEN entry.val ELSE << >>

\* Line 160: the values ("1", "true", "yes") that opt in to sharing.
ShareOptIn == { << "1" >>, << "t", "r", "u", "e" >>, << "y", "e", "s" >> }

\* Values of GRADIO_SHARE that are explored.
ShareEnvs ==
  { Unset,
    EnvValue(<< >>),
    EnvValue(<< "1" >>),
    EnvValue(<< "t", "r", "u", "e" >>),
    EnvValue(<< "T", "r", "u", "E" >>),
    EnvValue(<< "Y", "e", "s" >>),
    EnvValue(<< "o", "n" >>) }

\* Faulty variant of the share test: the value is compared as it is.
Share_case_sensitive(entry) == EnvGet(entry) \in ShareOptIn

\* Line 160: bool(os.environ.get("GRADIO_SHARE", "").lower() in (...))
Share(entry) == Lower(EnvGet(entry)) \in ShareOptIn

\* Faulty variant of the launch: the browser opens in the hosted case only.
LaunchArgs_inbrowser_hosted(hosted, entry) ==
  [called |-> TRUE, server_name |-> "0.0.0.0", server_port |-> GradioPort,
   share |-> Share(entry), inbrowser |-> hosted]

\* Lines 157-162: the keyword arguments of app.launch.
LaunchArgs(hosted, entry) ==
  [called |-> TRUE, server_name |-> "0.0.0.0", server_port |-> GradioPort,
   share |-> Share(entry), inbrowser |-> ~hosted]

\* Lines 157-162: app.launch(...), which blocks from then on.
main_launch ==
  /\ mainpc = "launch"
  /\ \E entry \in ShareEnvs :
       /\ gradio_share' = entry
       /\ launch' = LaunchArgs(in_colab, entry)
  /\ mainpc' = "launched"
  /\ UNCHANGED << now, argVars, proberVars, serverVars, mainVars, in_colab,
                  exposeResult, proxyResult, comfy_url, app, proxyValue,
                  printed >>

\* Lines 113 and 165-166: main() was the last statement of the script, so
\* once it has returned or raised the interpreter exits, and a daemon
\* thread that is still running is stopped with it.  The step is not
\* taken when main() was called from a notebook cell, where the process
\* lives on.
script_exit ==
  /\ mainpc \in {"returned", "raised"}
  /\ srvpc \notin {"raised", "finished", "killed"}
  /\ srvpc' = "killed"
  /\ UNCHANGED << now, argVars, mainpc, proberVars, srvExc,
                  server_start_error, status, listenTime, mainVars, uiVars >>

Next ==
  \/ run_comfyui_server_clear
  \/ run_comfyui_server_step
  \/ run_comfyui_server_raise
  \/ run_comfyui_server_append
  \/ run_comfyui_server_reraise
  \/ run_comfyui_server_return
  \/ main_start_thread
  \/ wait_for_server_init
  \/ wait_for_server_loop
  \/ wait_for_server_urlopen
  \/ wait_for_server_attempt_done
  \/ wait_for_server_sleep_done
  \/ Tick
  \/ main_check_ready
  \/ main_read_slot
  \/ main_raise
  \/ main_detect
  \/ expose_colab_port
  \/ get_comfyui_url
  \/ main_import_gradio
  \/ main_construct
  \/ main_launch
  \/ script_exit

Spec == Init /\ [][Next]_vars

\* ------------------------------ _wait_for_server on its own, lines 71-87

\* State at the call of main(), for a call of _wait_for_server with any
\* timeout, zero and negative included.
InitProbe ==
  /\ argv0 = ScriptArgv
  /\ ipython = FALSE
  /\ sys_argv = PreparedArgv(ScriptArgv, FALSE)
  /\ now = 0
  /\ timeout \in -1..MaxProbeTimeout
  /\ interval \in 1..MaxInterval
  /\ resolves \in SUBSET (1..Len(urls_to_try))
  /\ mainpc = "start"
  /\ deadline = 0
  /\ urlIdx = 1
  /\ attempt = NoAttempt
  /\ busyUntil = 0
  /\ waitResult = "none"
  /\ waitEnd = -1
  /\ srvpc = "unstarted"
  /\ srvExc = NoExc
  /\ server_start_error = << >>
  /\ status = 0
  /\ listenTime = -1
  /\ accepted = FALSE
  /\ lastStatus = 0
  /\ slotRead = "none"
  /\ msg = << >>
  /\ mainExc = [type |-> "", msg |-> << >>]
  /\ in_colab = FALSE
  /\ exposeResult = "none"
  /\ proxyResult = "none"
  /\ proxyValue = EmptyUrl
  /\ comfy_url = EmptyUrl
  /\ app = NoApp
  /\ printed = EmptyUrl
  /\ gradio_share = Unset
  /\ launch = NoLaunch

\* The steps of the server thread.
ServerStep ==
  \/ run_comfyui_server_clear
  \/ run_comfyui_server_step
  \/ run_comfyui_server_raise
  \/ run_comfyui_server_append
  \/ run_comfyui_server_reraise
  \/ run_comfyui_server_return

\* The steps of the main thread up to the return of _wait_for_server.
ProberStep ==
  \/ main_start_thread
  \/ wait_for_server_init
  \/ wait_for_server_loop
  \/ wait_for_server_urlopen
  \/ wait_for_server_attempt_done
  \/ wait_for_server_sleep_done

NextProbe == ServerStep \/ ProberStep \/ Tick

\* The main thread is scheduled and the clock advances; nothing is assumed
\* about the progress of the server thread.
SpecProbe ==
  InitProbe /\ [][NextProbe]_vars /\ WF_vars(ProberStep) /\ WF_vars(Tick)

\* ------------------------------------- the module-level code, lines 22-42

\* Arguments a caller or a notebook kernel passes after sys.argv[0].
ArgTokens ==
  { "-f", "kernel.json", "--listen", "127.0.0.1", "--disable-auto-launch",
    "--port", "--base-directory" }

RECURSIVE SeqsUpTo(_, _)
\* The sequences over S of length at most n.
SeqsUpTo(S, n) ==
  IF n = 0 THEN { << >> }
  ELSE LET shorter == SeqsUpTo(S, n - 1)
       IN  shorter \cup { Append(q, x) : q \in shorter, x \in S }

\* Argument lists the process can be started with: the script or kernel
\* launcher name followed by arguments, or nothing at all.
ArgvInputs ==
  { << >> } \cup
  { << name >> \o tail :
      name \in { "run_with_gradio.py", "colab_kernel_launcher.py" },
      tail \in SeqsUpTo(ArgTokens, MaxArgs) }

\* State when the module starts to execute, before line 36.
InitArgv ==
  /\ argv0 \in ArgvInputs
  /\ sys_argv = argv0
  /\ ipython \in BOOLEAN
  /\ mainpc = "module"
  /\ now = 0
  /\ timeout = 0
  /\ interval = 1
  /\ resolves = {}
  /\ deadline = 0
  /\ urlIdx = 1
  /\ attempt = NoAttempt
  /\ busyUntil = 0
  /\ waitResult = "none"
  /\ waitEnd = -1
  /\ srvpc = "unstarted"
  /\ srvExc = NoExc
  /\ server_start_error = << >>
  /\ status = 0
  /\ listenTime = -1
  /\ accepted = FALSE
  /\ lastStatus = 0
  /\ slotRead = "none"
  /\ msg = << >>
  /\ mainExc = [type |-> "", msg |-> << >>]
  /\ in_colab = FALSE
  /\ exposeResult = "none"
  /\ proxyResult = "none"
  /\ proxyValue = EmptyUrl
  /\ comfy_url = EmptyUrl
  /\ app = NoApp
  /\ printed = EmptyUrl
  /\ gradio_share = Unset
  /\ launch = NoLaunch

\* Lines 36-42: sys.argv is rewritten in place; the module is then ready
\* for the call of main().
prepare_argv ==
  /\ mainpc = "module"
  /\ sys_argv' = PreparedArgv(sys_argv, ipython)
  /\ mainpc' = "start"
  /\ UNCHANGED << argv0, ipython, now, timeout, interval, resolves,
                  proberVars, serverVars, mainVars, uiVars >>

NextArgv == prepare_argv

SpecArgv == InitArgv /\ [][NextArgv]_vars


\* ================================================================ claims

\* Positions of main at or after the steps that follow the prober.
AfterReady ==
  {"detect", "expose", "resolve", "import_gradio", "construct", "launch",
   "launched", "returned"}

\* Positions of main once comfy_url has been assigned.
AfterResolve == {"import_gradio", "construct", "launch", "launched", "returned"}

\* One of the steps expose / resolve / construct / launch has happened.
UiStepTaken ==
  \/ exposeResult # "none"
  \/ proxyResult # "none"
  \/ app.built
  \/ launch.called

Contains(seq, x) == \E k \in 1..Len(seq) : seq[k] = x

\* Seconds between the call of _wait_for_server and its return.
Elapsed == waitEnd - (deadline - timeout)

\* C1: none of the steps expose port, resolve URL, construct UI, launch UI
\* happens, and main is at none of them, unless _wait_for_server has returned
\* True; once it has returned False main is on its way to raise RuntimeError
\* and none of the steps has happened.
C1_GatedByReadiness ==
  /\ (UiStepTaken \/ mainpc \in AfterReady) => waitResult = "ready"
  /\ waitResult = "notready" =>
       /\ ~UiStepTaken
       /\ mainpc \in {"check_ready", "read_slot", "raise", "raised"}
       /\ mainpc = "raised" => mainExc.type = "RuntimeError"

C1_Witness ==
  /\ waitResult = "ready"
  /\ exposeResult # "none"
  /\ launch.called

\* The start-up routine has raised without the port ever having accepted.
ServerFailedBeforeReachable ==
  /\ srvpc \in {"except", "reraise", "raised"}
  /\ listenTime = -1

MainEnded == mainpc \in {"raised", "launched", "returned"}

\* C2 as stated (for a timeout longer than the poll interval): if the
\* start-up routine raises before the server is reachable, main ends with a RuntimeError whose message contains the type
\* name and the message of that exception, and no UI shell is built or
\* launched.
C2_Original ==
  (ServerFailedBeforeReachable /\ MainEnded /\ timeout > interval) =>
    /\ mainpc = "raised"
    /\ mainExc.type = "RuntimeError"
    /\ Contains(mainExc.msg, srvExc.type)
    /\ Contains(mainExc.msg, srvExc.msg)
    /\ ~app.built
    /\ ~launch.called

\* C2 amended: if the start-up routine raises before the server is
\* reachable, no UI shell is ever built or launched and main ends with a
\* RuntimeError; its message contains the type name and the message of the
\* exception when the exception was in the slot at the moment main looked at
\* it, and is the generic message alone when the slot was still empty then.
C2_FailureReported ==
  ServerFailedBeforeReachable =>
    /\ ~app.built
    /\ ~launch.called
    /\ waitResult # "ready"
    /\ MainEnded =>
         /\ mainpc = "raised"
         /\ mainExc.type = "RuntimeError"
         /\ slotRead = "error" =>
              /\ Contains(mainExc.msg, srvExc.type)
              /\ Contains(mainExc.msg, srvExc.msg)
         /\ slotRead = "empty" => mainExc.msg = GenericMsg

C2_Witness ==
  /\ srvpc = "raised"
  /\ listenTime = -1
  /\ timeout > interval
  /\ mainpc = "raised"
  /\ slotRead = "error"
  /\ Contains(mainExc.msg, "SystemExit")

\* C3 as stated: with I < T and no candidate ever answering,
\* _wait_for_server returns False after at least T and at most T + I
\* seconds, the time spent in the connection attempts included.
C3_Original ==
  (waitResult = "notready" /\ ~accepted /\ interval < timeout) =>
    /\ Elapsed >= timeout
    /\ Elapsed <= timeout + interval

\* C3 amended: with I < T and no candidate ever answering, _wait_for_server
\* returns False after at least T seconds and less than T + I plus the
\* time of one round of attempts (2 seconds for each of the two candidates).
C3_TimeoutWindow ==
  (waitResult = "notready" /\ ~accepted /\ interval < timeout) =>
    /\ Elapsed >= timeout
    /\ Elapsed < timeout + interval + Len(urls_to_try) * AttemptTimeout

C3_Witness ==
  /\ waitResult = "notready"
  /\ ~accepted
  /\ interval < timeout
  /\ Elapsed = timeout + interval + Len(urls_to_try) * AttemptTimeout - 1

\* The endpoint started answering with a success status at listenTime,
\* before the deadline, and has answered ever since.
ResponsiveSinceBeforeDeadline ==
  /\ waitResult # "none"
  /\ srvpc = "serving"
  /\ status >= 200 /\ status < 300
  /\ resolves # {}
  /\ listenTime < deadline

\* C4 as stated: if the endpoint starts answering successfully at t < T and
\* keeps answering, _wait_for_server returns True no later than t + I, and
\* never returns False.
C4_Original ==
  ResponsiveSinceBeforeDeadline =>
    /\ waitResult = "ready"
    /\ waitEnd <= listenTime + interval

\* C4 amended: if the endpoint starts answering successfully at t and keeps
\* answering, then _wait_for_server returns True whenever
\* t + I + 2 * 2 s < T, and when it returns True it does so no later than
\* t + I + 3 * 2 s (the attempts in flight, one sleep, and the attempts of
\* the next round, each attempt lasting up to its 2 second timeout).
C4_ReadyLatency ==
  ResponsiveSinceBeforeDeadline =>
    /\ waitResult = "ready" =>
         waitEnd <= listenTime + interval
                      + (Len(urls_to_try) + 1) * AttemptTimeout
    /\ listenTime + interval + Len(urls_to_try) * AttemptTimeout < deadline =>
         waitResult = "ready"

C4_Witness ==
  /\ ResponsiveSinceBeforeDeadline
  /\ listenTime > 0
  /\ listenTime + interval + Len(urls_to_try) * AttemptTimeout < deadline
  /\ waitResult = "ready"
  /\ waitEnd > listenTime + interval

\* C5: an attempt that is answered with any HTTP status, 2xx or
\* not, makes the prober return ready at once.
C5_Original == lastStatus # 0 => waitResult = "ready"

\* C5, what the code does instead: an answered attempt makes the prober
\* return ready at once exactly when the status of the response is 2xx; a
\* response with another status (404, 500) is treated like a failed
\* connection and the prober goes on polling.
C5_ReadyOn2xxOnly ==
  lastStatus # 0 =>
    (waitResult = "ready" <=> (lastStatus >= 200 /\ lastStatus < 300))

\* C6: _wait_for_server has returned True only if, earlier in the same
\* call, a connection attempt was accepted and answered by the server on
\* its port.
C6_ReadyImpliesAccepted ==
  waitResult = "ready" =>
    /\ accepted
    /\ listenTime >= 0
    /\ listenTime <= waitEnd

C6_Witness ==
  /\ waitResult = "ready"
  /\ accepted
  /\ waitEnd > 0


\* C7: when the proxy-URL call or the import of the hosted module raises,
\* or the call returns an empty value, _get_comfyui_url returns exactly the
\* local loopback URL http://127.0.0.1:8188 and main goes on; neither
\* _get_comfyui_url nor _expose_colab_port lets an exception reach main.
C7_ResolutionNeverFatal ==
  /\ proxyResult \in {"failed", "empty"} =>
       /\ mainpc \in AfterResolve
       /\ comfy_url = COMFYUI_URL_LOCAL
       /\ comfy_url.scheme = "http"
       /\ comfy_url.host = "127.0.0.1"
       /\ comfy_url.port = 8188
  /\ exposeResult # "none" => mainpc \in {"resolve"} \cup AfterResolve
  /\ proxyResult # "none" => mainpc \in AfterResolve
  /\ waitResult = "ready" => mainExc.type = ""

C7_Witness ==
  /\ in_colab
  /\ exposeResult = "failed"
  /\ proxyResult = "failed"
  /\ comfy_url = COMFYUI_URL_LOCAL
  /\ launch.called

\* C8 as stated: when the run is not hosted, the URL handed to the UI is
\* always the local loopback URL, the hosted proxy mechanism is not used to
\* produce it, and the UI shell is launched on port 7860 with automatic
\* browser opening.
C8_Original ==
  (~in_colab /\ mainpc \in AfterResolve) =>
    /\ comfy_url = COMFYUI_URL_LOCAL
    /\ proxyResult # "url"
    /\ launch.called => (launch.server_port = 7860 /\ launch.inbrowser)

\* C8 amended: when the run is not hosted, _expose_colab_port is not called
\* but _get_comfyui_url still tries the hosted proxy call: the URL handed to
\* the UI is the local loopback URL unless that call returns a non-empty
\* URL, in which case it is that URL; the UI shell is launched on port 7860
\* with automatic browser opening.
C8_NotHosted ==
  (~in_colab /\ mainpc \in AfterResolve) =>
    /\ exposeResult = "none"
    /\ proxyResult # "none"
    /\ comfy_url = IF proxyValue # EmptyUrl THEN proxyValue ELSE COMFYUI_URL_LOCAL
    /\ launch.called => (launch.server_port = 7860 /\ launch.inbrowser)

C8_Witness ==
  /\ ~in_colab
  /\ launch.called
  /\ comfy_url = COMFYUI_URL_LOCAL
  /\ app.src = COMFYUI_URL_LOCAL
  /\ proxyResult = "failed"

\* C9 as stated: in the hosted case, if exposing the port or resolving the
\* proxied URL fails or raises, the resolved URL is the local loopback URL;
\* the proxied URL is used only when both steps succeeded.
C9_Original ==
  (in_colab /\ mainpc \in AfterResolve) =>
    /\ (exposeResult = "failed" \/ proxyResult \in {"failed", "empty"}) =>
         comfy_url = COMFYUI_URL_LOCAL
    /\ comfy_url # COMFYUI_URL_LOCAL =>
         (exposeResult = "ok" /\ proxyResult = "url")

\* C9 amended: in the hosted case both steps are attempted; the resolved URL
\* is the local loopback URL if resolving the proxied URL fails, raises or
\* returns nothing, and the proxied URL whenever resolving succeeded: a
\* failure of the step that exposes the port is swallowed and does not
\* change the URL.
C9_HostedFallback ==
  (in_colab /\ mainpc \in AfterResolve) =>
    /\ exposeResult \in {"ok", "failed"}
    /\ proxyResult \in {"failed", "empty"} => comfy_url = COMFYUI_URL_LOCAL
    /\ proxyResult = "url" => comfy_url \in ProxyUrls

C9_Witness ==
  /\ in_colab
  /\ exposeResult = "failed"
  /\ proxyResult = "url"
  /\ comfy_url \in ProxyUrls
  /\ app.built

\* C10: when the proxy call returns a non-empty URL, the resolved URL is
\* exactly that value, not the local URL, and it is the URL of the frame of
\* the UI shell.
C10_ProxiedUrlUsed ==
  (proxyResult = "url" /\ mainpc \in AfterResolve) =>
    /\ comfy_url = proxyValue
    /\ comfy_url # COMFYUI_URL_LOCAL
    /\ app.built => app.src = proxyValue

C10_Witness ==
  /\ in_colab
  /\ proxyResult = "url"
  /\ proxyValue.host = "proxy.example"
  /\ app.built
  /\ app.src = proxyValue
  /\ launch.called


\* C11: if gradio cannot be imported after the server became ready, main
\* prints the resolved URL and returns without raising and without building
\* a UI shell, and after main has returned the server started by the daemon
\* thread is still running (it has not been stopped from outside).
C11_Original ==
  mainpc = "returned" =>
    /\ printed = comfy_url
    /\ mainExc.type = ""
    /\ ~app.built
    /\ ~launch.called
    /\ srvpc # "killed"

\* C11, what the code does: the part of the claim about main itself holds.
C11_PrintsAndReturns ==
  mainpc = "returned" =>
    /\ waitResult = "ready"
    /\ printed = comfy_url
    /\ printed # EmptyUrl
    /\ mainExc.type = ""
    /\ ~app.built
    /\ ~launch.called


\* The fatal message carries the detail of a server-thread failure.
HasDetail(m) == Contains(m, "\n\nServer thread failed with: ")

ServerHasRaised == srvpc \in {"except", "reraise", "raised"}

ServerRunningUnfailed ==
  srvpc \in {"clear", "serving"} \cup {StartupSteps[k] : k \in 1..Len(StartupSteps)}

\* C12 as stated (for a timeout longer than the poll interval, and while
\* the process is alive): the fatal error raised after a probe timeout carries the
\* server-thread failure detail if and only if the start-up of the server
\* thread has raised, and is the generic message alone if and only if the
\* server thread is still running without having failed.
C12_Original ==
  (/\ mainpc = "raised"
   /\ mainExc.type = "RuntimeError"
   /\ srvpc # "killed"
   /\ timeout > interval) =>
    /\ HasDetail(mainExc.msg) <=> ServerHasRaised
    /\ mainExc.msg = GenericMsg <=> ServerRunningUnfailed

\* C12 amended: the fatal error carries the failure detail (type name and
\* message of the stored exception) if and only if the slot held an
\* exception at the moment main looked at it, the server thread having
\* raised and stored it by then; it is the generic message alone if and
\* only if the slot was empty at that moment, whatever the server thread
\* has done since.
C12_MessageFollowsSlot ==
  (mainpc = "raised" /\ mainExc.type = "RuntimeError") =>
    /\ slotRead \in {"error", "empty"}
    /\ slotRead = "error" =>
         /\ Len(server_start_error) = 1
         /\ srvpc \in {"reraise", "raised", "killed"}
         /\ mainExc.msg =
              GenericMsg \o << "\n\nServer thread failed with: ",
                               server_start_error[1].type, ": ",
                               server_start_error[1].msg >>
    /\ slotRead = "empty" => mainExc.msg = GenericMsg

C12_Witness ==
  /\ mainpc = "raised"
  /\ slotRead = "error"
  /\ srvpc = "raised"
  /\ listenTime >= 0
  /\ HasDetail(mainExc.msg)
  /\ Contains(mainExc.msg, "No module named torch")


\* C13: the UI shell is launched with sharing enabled exactly when
\* GRADIO_SHARE, lower-cased, is one of "1", "true", "yes"; unset, empty or
\* any other value disables sharing, and "true" in any letter case enables
\* it.
C13_ShareOptIn ==
  launch.called =>
    /\ launch.share <=>
         /\ gradio_share.set
         /\ \/ gradio_share.val = << "1" >>
            \/ /\ Len(gradio_share.val) = 4
               /\ gradio_share.val[1] \in {"t", "T"}
               /\ gradio_share.val[2] \in {"r", "R"}
               /\ gradio_share.val[3] \in {"u", "U"}
               /\ gradio_share.val[4] \in {"e", "E"}
            \/ /\ Len(gradio_share.val) = 3
               /\ gradio_share.val[1] \in {"y", "Y"}
               /\ gradio_share.val[2] \in {"e", "E"}
               /\ gradio_share.val[3] \in {"s", "S"}
    /\ (~gradio_share.set \/ gradio_share.val = << >>) => ~launch.share

C13_Witness ==
  /\ launch.called
  /\ launch.share
  /\ gradio_share = EnvValue(<< "T", "r", "u", "E" >>)


\* The address given with every --listen of the list is the wildcard.
ListenIsWildcard(argv) ==
  /\ In("--listen", argv)
  /\ \A k \in 1..Len(argv) :
       argv[k] = "--listen" => (k < Len(argv) /\ argv[k + 1] = "0.0.0.0")

\* p is a prefix of q.
IsPrefix(p, q) == Len(p) <= Len(q) /\ \A k \in 1..Len(p) : p[k] = q[k]

\* The options the preparation itself writes into the list.
PreparedOptions ==
  { "--base-directory", COMFYUI_ROOT, "--listen", "0.0.0.0",
    "--disable-auto-launch" }

\* The connection files of the list: the arguments that directly follow a
\* -f, other than a text the preparation writes itself.
ConnectionFiles(argv) ==
  { argv[k + 1] : k \in { j \in 1..(Len(argv) - 1) : argv[j] = "-f" } }
    \ PreparedOptions

\* C14 as stated: after the preparation the listen address is 0.0.0.0 and
\* auto-launch is disabled for every initial argument list; with a -f in the
\* initial list the result contains neither -f nor the connection file that
\* followed it, and without one every argument of the caller is preserved.
C14_Original ==
  mainpc = "start" =>
    /\ ListenIsWildcard(sys_argv)
    /\ In("--disable-auto-launch", sys_argv)
    /\ In("-f", argv0) =>
         /\ ~In("-f", sys_argv)
         /\ \A c \in ConnectionFiles(argv0) : ~In(c, sys_argv)
    /\ ~In("-f", argv0) => IsPrefix(argv0, sys_argv)

\* C14 amended: after the preparation the list always holds a --listen
\* option and --disable-auto-launch.  In the hosted variant (a -f argument
\* present, or ipython loaded) the list is replaced by the first element
\* (python if there was none) followed by --base-directory ROOT --listen 0.0.0.0 --disable-auto-launch,
\* so it holds neither -f nor the connection file nor any other argument of
\* the caller.  Otherwise every argument of the caller is preserved in
\* order and the missing defaults are appended: the listen address is
\* 0.0.0.0 only if the caller gave no --listen of its own.
C14_ArgvPrepared ==
  mainpc = "start" =>
    /\ In("--listen", sys_argv)
    /\ In("--disable-auto-launch", sys_argv)
    /\ (In("-f", argv0) \/ ipython) =>
         /\ sys_argv = << IF argv0 # << >> THEN argv0[1] ELSE "python",
                          "--base-directory", COMFYUI_ROOT,
                          "--listen", "0.0.0.0", "--disable-auto-launch" >>
         /\ ~In("-f", sys_argv)
         /\ \A c \in ConnectionFiles(argv0) : ~In(c, sys_argv)
    /\ ~(In("-f", argv0) \/ ipython) =>
         /\ IsPrefix(argv0, sys_argv)
         /\ ~In("--listen", argv0) => ListenIsWildcard(sys_argv)
         /\ \A k \in 1..Len(sys_argv) :
              k > Len(argv0) =>
                sys_argv[k] \in {"--listen", "0.0.0.0", "--disable-auto-launch"}

C14_Witness ==
  /\ mainpc = "start"
  /\ argv0 = << "colab_kernel_launcher.py", "-f", "kernel.json" >>
  /\ Len(sys_argv) = 6
  /\ ~In("kernel.json", sys_argv)


\* The server thread has no write to the slot ahead of it.
ServerPastWrites == srvpc \in {"reraise", "raised", "finished", "killed"}

\* C15 as stated (for a timeout longer than the poll interval): once main
\* has read the slot the server thread can no longer write to it, and no
\* exception is in the slot after main has reported the generic timeout.
C15_Original ==
  (slotRead # "none" /\ timeout > interval) =>
    /\ ServerPastWrites
    /\ (mainpc = "raised" /\ mainExc.msg = GenericMsg) =>
         Len(server_start_error) = 0

\* C15 amended: main reads the slot without waiting for the server thread.
\* An exception main found in the slot was written before the read, by a
\* server thread that is past its only write; when main found the slot
\* empty the server thread may still write to it afterwards, and the error
\* main raises is then the generic one all the same: an exception stored
\* after the read is never reported.
C15_LateWriteUnreported ==
  /\ slotRead = "error" =>
       /\ Len(server_start_error) = 1
       /\ srvpc \in {"reraise", "raised", "killed"}
       /\ HasDetail(msg)
  /\ slotRead = "empty" =>
       /\ srvpc # "unstarted"
       /\ msg = GenericMsg
       /\ mainpc = "raised" =>
            (mainExc.type = "RuntimeError" /\ mainExc.msg = GenericMsg)
  /\ Len(server_start_error) = 1 => srvpc \in {"reraise", "raised", "killed"}

C15_Witness ==
  /\ slotRead = "empty"
  /\ mainpc = "raised"
  /\ mainExc.msg = GenericMsg
  /\ Len(server_start_error) = 1
  /\ srvpc = "raised"
  /\ timeout > interval


\* A step that changes the slot is the append of the server thread's
\* handler to the empty slot, and no step of the main thread.
SlotWrittenOnceByServer ==
  server_start_error' # server_start_error =>
    /\ srvpc = "except"
    /\ srvpc' = "reraise"
    /\ server_start_error = << >>
    /\ server_start_error' = << srvExc >>
    /\ mainpc' = mainpc

\* A step in which main reads the slot is the first one, and follows a
\* prober that returned False.
SlotReadOnceAfterFalse ==
  slotRead' # slotRead =>
    /\ slotRead = "none"
    /\ mainpc = "read_slot"
    /\ waitResult = "notready"
    /\ srvpc' = srvpc

\* C16: the slot holds at most one exception in every reachable state; it
\* is empty until the server thread writes it, is written at most once and
\* only by the server thread, never by main or the prober, and main reads
\* it at most once and only after _wait_for_server returned False.
C16_SlotDiscipline ==
  /\ [](/\ Len(server_start_error) <= 1
        /\ srvpc \in {"unstarted", "clear"} => server_start_error = << >>
        /\ slotRead # "none" => waitResult = "notready")
  /\ [][SlotWrittenOnceByServer /\ SlotReadOnceAfterFalse]_vars

C16_Witness ==
  /\ Len(server_start_error) = 1
  /\ slotRead = "error"
  /\ waitResult = "notready"


\* C17: an exception raised in the start-up sequence of the server thread
\* is in the slot before it is raised again; a server thread that has ended
\* has ended by an exception if and only if the slot is populated, the slot
\* then holds that exception, and a thread that ended normally has raised
\* nothing.
C17_StoredThenReraised ==
  /\ srvpc \in {"reraise", "raised"} =>
       (srvExc # NoExc /\ server_start_error = << srvExc >>)
  /\ srvpc \in {"raised", "finished"} =>
       (srvpc = "raised" <=> Len(server_start_error) > 0)
  /\ srvpc = "finished" => (srvExc = NoExc /\ server_start_error = << >>)
  /\ srvpc = "except" => (srvExc # NoExc /\ server_start_error = << >>)

C17_Witness ==
  /\ srvpc = "raised"
  /\ srvExc.type = "SystemExit"
  /\ listenTime = -1
  /\ server_start_error = << srvExc >>


\* The step in which a connection attempt of the prober ends.
AttemptEnds == mainpc = "urlopen" /\ mainpc' # "urlopen"

\* A failed connection attempt neither ends the call nor propagates: after
\* the first candidate the second one is tried at once, after the last one
\* the prober sleeps the poll interval.
FailureMovesOn ==
  (AttemptEnds /\ attempt.kind \in FailKinds) =>
    /\ mainpc' # "raised"
    /\ mainExc' = mainExc
    /\ waitResult' = "none"
    /\ now' = now
    /\ urlIdx < Len(urls_to_try) =>
         (mainpc' = "try" /\ urlIdx' = urlIdx + 1)
    /\ urlIdx = Len(urls_to_try) =>
         (mainpc' = "sleep" /\ busyUntil' = now + interval)

\* The prober goes to sleep only from a failed attempt on the last
\* candidate of the round.
SleepOnlyAfterAllFailed ==
  (mainpc' = "sleep" /\ mainpc # "sleep") =>
    /\ AttemptEnds
    /\ urlIdx = Len(urls_to_try)
    /\ ~AttemptSucceeds(attempt)

\* An attempt that succeeds returns ready in the same instant, whichever
\* candidate it was made on.
SuccessReturnsAtOnce ==
  (AttemptEnds /\ AttemptSucceeds(attempt)) =>
    /\ waitResult' = "ready"
    /\ waitEnd' = now
    /\ now' = now
    /\ mainpc' = "check_ready"

\* C18: in _wait_for_server a failed connection attempt (refused, DNS
\* failure, timeout) never ends the call and never propagates; after a
\* failure on 127.0.0.1 localhost is tried in the same round, the prober
\* sleeps the poll interval only after every candidate of the round has
\* failed, and a success on any candidate returns ready without sleeping.
C18_FailuresAreSkipped ==
  [][FailureMovesOn /\ SleepOnlyAfterAllFailed /\ SuccessReturnsAtOnce]_vars

C18_Witness ==
  /\ mainpc = "check_ready"
  /\ waitResult = "ready"
  /\ urlIdx = 2
  /\ resolves = {2}
  /\ now > listenTime
  /\ listenTime > 0


\* C19: whatever the server thread does, _wait_for_server eventually
\* returns True or False, every connection attempt ending within its own
\* timeout and time advancing; with a timeout of zero or less it returns
\* False at once and no connection attempt is ever made.
C19_ProbeTerminates ==
  /\ <>(waitResult \in {"ready", "notready"})
  /\ [](timeout <= 0 =>
          /\ mainpc \notin {"try", "urlopen", "sleep"}
          /\ attempt = NoAttempt
          /\ ~accepted
          /\ waitResult \in {"none", "notready"}
          /\ waitResult = "notready" => waitEnd = 0)

C19_Witness ==
  /\ waitResult = "notready"
  /\ timeout = MaxProbeTimeout
  /\ srvpc = "serving"
  /\ ~UrlopenRaises(status)
  /\ resolves = {}


\* _wait_for_server is running.
ProberRunning == mainpc \in {"wait_init", "loop", "try", "urlopen", "sleep"}

\* C20: a start-up failure is never reported before the probe deadline.
\* While the prober runs main has not looked at the slot and has raised
\* nothing; when the server thread has raised before the deadline without
\* ever having been reachable, main is still polling; and main has read
\* the slot, or raised its fatal error, only after the prober returned
\* False with the full timeout elapsed.
C20_NoEarlyReport ==
  /\ ProberRunning =>
       (slotRead = "none" /\ mainExc.type = "" /\ waitResult = "none")
  /\ (ServerFailedBeforeReachable /\ mainpc # "start" /\ now < deadline) =>
       (ProberRunning /\ mainpc # "wait_init")
  /\ (slotRead # "none" \/ mainpc \in {"read_slot", "raise", "raised"}) =>
       /\ waitResult = "notready"
       /\ now >= deadline
       /\ Elapsed >= timeout

C20_Witness ==
  /\ ServerFailedBeforeReachable
  /\ Len(server_start_error) = 1
  /\ mainpc = "sleep"
  /\ urlIdx = Len(urls_to_try)
  /\ now > 0
  /\ busyUntil < deadline
  /\ slotRead = "none"

====
